---- MODULE Spec2Model ----
(***************************************************************************)
(* Model of static/videos/arf_render_video/process_videos.py: the batch    *)
(* orchestrator (__main__) that discovers the video files of a directory,  *)
(* submits one process_video call per file to a multiprocessing.Pool and   *)
(* advances a tqdm counter per completion, and process_video itself, the   *)
(* decode -> BGR2RGB -> encode loop of one file with its handle lifecycle. *)
(***************************************************************************)
EXTENDS Integers, FiniteSets, Sequences, TLC

\* ------------------------------------------------------------------ bounds
\* Number of entries of the source directory that the model enumerates.
MaxEntries == 3
\* Largest number of frames a decoder hands out before it reports end of stream.
MaxFrames == 2

\* --------------------------------------------------------- program constants
num_processes == 12
DefaultFps == 30

video_extensions == {".mp4", ".avi", ".mov", ".mkv", ".wmv", ".flv"}

\* ------------------------------------------------------------ the directory
\* The entries the source directory may hold: name = stem + suffix, and the
\* frame rate the decoder reports for that file (CAP_PROP_FPS).
EntryTable ==
  << [stem |-> "a", suffix |-> ".mp4", fps |-> 0],
     [stem |-> "notes", suffix |-> ".txt", fps |-> 0],
     [stem |-> "b", suffix |-> ".AVI", fps |-> 25],
     [stem |-> "a", suffix |-> ".mov", fps |-> -1] >>

Entries == 1..MaxEntries

\* every entry of the table, for the runs that look at the file names only
AllEntries == DOMAIN EntryTable

\* line 92
output_dir == "processed_videos"

\* variant: one fixed name for every output file
OutputPath_Fixed(i) == <<output_dir, "output", ".mp4">>

\* lines 20-21: output_dir / f"{video_path.stem}.mp4"
OutputPath(i) == <<output_dir, EntryTable[i].stem, ".mp4">>

\* str.lower() on the suffixes that occur
Lower(s) ==
  CASE s = ".AVI" -> ".avi"
    [] s = ".MP4" -> ".mp4"
    [] OTHER -> s

\* f.is_file() and f.suffix.lower() in video_extensions
IsVideo(i) == Lower(EntryTable[i].suffix) \in video_extensions

\* the list comprehension of lines 109-112
Discover(d) == {i \in d : IsVideo(i)}

\* -------------------------------------------------------------------- state
VARIABLES
  dir,            \* entries present in the source directory
  mainPc,         \* position of the orchestrator (__main__)
  video_files,    \* the discovered files (one task each)
  outDirCreated,  \* the output directory exists
  poolStarted,    \* multiprocessing.Pool has been created
  pbar,           \* tqdm counter: pbar.n
  task,           \* per file: the state of its process_video invocation
  tracing         \* the calls on the handles are recorded in task[i].ev

vars ==
  <<dir, mainPc, video_files, outDirCreated, poolStarted, pbar, task, tracing>>

Steps == {"start", "open_cap", "chk_cap", "props", "open_out", "chk_out",
          "rel49", "read", "convert", "write", "rel_cap", "rel_out"}

\* the state of a task that has not been submitted / not started
IdleTask ==
  [pc |-> "none", cap |-> "unbound", out |-> "unbound",
   fps |-> 0, encFps |-> 0, decoded |-> 0, written |-> 0, convFails |-> 0,
   srcOpened |-> "unknown", dstOpened |-> "unknown",
   loopEntered |-> FALSE, handled |-> FALSE,
   runs |-> 0, output_path |-> <<>>, ev |-> <<>>]

\* the call e on a handle, appended to the record of the invocation
Rec(r, e) == IF tracing THEN [r EXCEPT !.ev = Append(@, e)] ELSE r

Init ==
  /\ dir \in SUBSET Entries
  /\ mainPc = "discover"
  /\ video_files = {}
  /\ outDirCreated = FALSE
  /\ poolStarted = FALSE
  /\ pbar = 0
  /\ task = [i \in AllEntries |-> IdleTask]
  /\ tracing = FALSE

Total == Cardinality(video_files)

\* the tasks that occupy a worker: inside process_video, also when the call
\* they are in never returns
Running == {i \in Entries : task[i].pc \in Steps \cup {"hung"}}

\* variant: a pool of one worker
FreeWorker_Single == Cardinality(Running) < 1

\* line 133: Pool(processes=num_processes): a worker is free
FreeWorker == Cardinality(Running) < num_processes

\* variant: the completion of a task that returned is never reported
Finished_Lost(i) == task[i].pc = "raised"

\* the invocation is over: it returned to the worker, or its exception escaped
Finished(i) == task[i].pc \in {"returned", "raised"}

\* ------------------------------------------------------------ orchestrator
\* variant: the early exit is missing
AfterDiscovery_NoExit(found) == "setup"

\* lines 114-116: exit() when no file was found
AfterDiscovery(found) == IF found = {} THEN "exited" ELSE "setup"

\* lines 109-116: discovery, and the early exit when nothing matches
DiscoverFiles ==
  /\ mainPc = "discover"
  /\ video_files' = Discover(dir)
  /\ mainPc' = AfterDiscovery(Discover(dir))
  /\ UNCHANGED <<dir, tracing, outDirCreated, poolStarted, pbar, task>>

\* lines 118-130: the output directory, the progress bar, the partial
Setup ==
  /\ mainPc = "setup"
  /\ outDirCreated' = TRUE
  /\ pbar' = 0
  /\ mainPc' = "pool"
  /\ UNCHANGED <<dir, tracing, video_files, poolStarted, task>>

\* lines 133-136: the pool is created and one task per file is submitted
StartPool ==
  /\ mainPc = "pool"
  /\ poolStarted' = TRUE
  /\ task' = [i \in AllEntries |->
               IF i \in video_files THEN [task[i] EXCEPT !.pc = "queued"]
               ELSE task[i]]
  /\ mainPc' = "drain"
  /\ UNCHANGED <<dir, tracing, video_files, outDirCreated, pbar>>

\* variant: the progress bar is not advanced
PbarUpdate_Stuck(n) == n

\* variant: the progress bar is advanced by two
PbarUpdate_Double(n) == n + 2

\* the progress update of line 137
PbarUpdate(n) == n + 1

\* variant: a task that ended in the exception handler is submitted again
Consumed_Retry(r) ==
  IF r.handled
  THEN [IdleTask EXCEPT !.pc = "queued", !.runs = r.runs]
  ELSE [IdleTask EXCEPT !.pc = "consumed", !.srcOpened = r.srcOpened,
                        !.dstOpened = r.dstOpened, !.runs = r.runs]

\* The result carries nothing (None) and the locals of the invocation are
\* gone: only which of its handles opened, and that it ran, is remembered.
Consumed(r) ==
  [IdleTask EXCEPT !.pc = "consumed", !.srcOpened = r.srcOpened,
                   !.dstOpened = r.dstOpened, !.runs = r.runs]

\* lines 136-137: the next result of imap_unordered, in completion order; the
\* result of a task whose exception escaped is re-raised in the orchestrator
Collect(i) ==
  /\ mainPc = "drain"
  /\ Finished(i)
  /\ IF task[i].pc = "raised"
     THEN /\ mainPc' = "crashed"
          /\ UNCHANGED <<pbar, task>>
     ELSE /\ task' = [task EXCEPT ![i] = Consumed(task[i])]
          /\ pbar' = PbarUpdate(pbar)
          /\ UNCHANGED mainPc
  /\ UNCHANGED <<dir, tracing, video_files, outDirCreated, poolStarted>>

\* variant: the loop ends with the first result
AllCollected_Any == \E i \in video_files : task[i].pc = "consumed"

\* the iterator of line 136 is exhausted: every submitted task gave its result
AllCollected == \A i \in video_files : task[i].pc = "consumed"

\* lines 136-143: the loop ends, the pool is released, pbar.close(), summary
Finish ==
  /\ mainPc = "drain"
  /\ AllCollected
  /\ mainPc' = "done"
  /\ UNCHANGED <<dir, tracing, video_files, outDirCreated, poolStarted, pbar, task>>

\* ------------------------------------------------------------ process_video
\* variant: the try block starts after the paths and the mkdir
TrySteps_AfterMkdir == Steps \ {"start"}

\* the steps that the try block of lines 16-79 encloses
TrySteps == Steps

\* cap.release() (lines 49, 76, 84)
CapRelease(r) == Rec([r EXCEPT !.cap = "closed"], <<"rel_cap", 0>>)

\* out.release() (lines 77, 86)
OutRelease(r) == Rec([r EXCEPT !.out = "closed"], <<"rel_out", 0>>)

\* lines 83-84: if 'cap' in locals() and cap.isOpened(): cap.release()
ReleaseCapIfOpen(r) == IF r.cap = "open" THEN CapRelease(r) ELSE r

\* lines 85-86: if 'out' in locals() and out.isOpened(): out.release()
ReleaseOutIfOpen(r) == IF r.out = "open" THEN OutRelease(r) ELSE r

\* variant: the handler releases the decoder only
Handler_CapOnly(r) ==
  [ReleaseCapIfOpen(r) EXCEPT !.handled = TRUE, !.pc = "returned"]

\* variant: the handler releases the encoder first
Handler_OutFirst(r) ==
  [ReleaseCapIfOpen(ReleaseOutIfOpen(r)) EXCEPT !.handled = TRUE,
                                                !.pc = "returned"]

\* lines 80-86: except Exception: report, release what is open, return
Handler(r) ==
  [ReleaseOutIfOpen(ReleaseCapIfOpen(r)) EXCEPT !.handled = TRUE,
                                                !.pc = "returned"]

\* an exception raised at the step r.pc: the handler of line 80 runs if the
\* step is inside the try block, the exception leaves the function otherwise
Raise(r) ==
  IF r.pc \in TrySteps THEN Handler(r) ELSE [r EXCEPT !.pc = "raised"]

\* a worker of the pool runs a step of task i (the pool lives while the
\* orchestrator is inside the with block)
WorkerStep(i, r) ==
  /\ task' = [task EXCEPT ![i] = r]
  /\ UNCHANGED <<dir, tracing, mainPc, video_files, poolStarted, pbar>>

\* a free worker takes the task from the queue
Begin(i) ==
  /\ mainPc = "drain"
  /\ task[i].pc = "queued"
  /\ FreeWorker
  /\ WorkerStep(i, [task[i] EXCEPT !.runs = @ + 1, !.pc = "start"])
  /\ UNCHANGED outDirCreated

\* lines 17-24: the paths and output_dir.mkdir
Start(i) ==
  /\ mainPc = "drain"
  /\ task[i].pc = "start"
  /\ \/ /\ WorkerStep(i, [task[i] EXCEPT !.output_path = OutputPath(i),
                                         !.pc = "open_cap"])
        /\ outDirCreated' = TRUE
     \/ /\ WorkerStep(i, Raise(task[i]))
        /\ UNCHANGED outDirCreated

\* line 27: cv2.VideoCapture(str(video_path))
OpenCap(i) ==
  /\ mainPc = "drain"
  /\ task[i].pc = "open_cap"
  /\ UNCHANGED outDirCreated
  /\ \/ WorkerStep(i, Rec([task[i] EXCEPT !.cap = "open", !.pc = "chk_cap"],
                           <<"acq_cap", 0>>))
     \/ WorkerStep(i, [task[i] EXCEPT !.cap = "closed", !.pc = "chk_cap"])
     \/ WorkerStep(i, Raise(task[i]))

\* variant: the return of line 30 is missing
SourceUnopened_NoReturn(r) == [r EXCEPT !.srcOpened = "no", !.pc = "props"]

\* lines 29-30: the source did not open: warn and return
SourceUnopened(r) == [r EXCEPT !.srcOpened = "no", !.pc = "returned"]

\* lines 28-30: if not cap.isOpened(): warn and return
ChkCap(i) ==
  /\ mainPc = "drain"
  /\ task[i].pc = "chk_cap"
  /\ UNCHANGED outDirCreated
  /\ \/ IF task[i].cap = "open"
        THEN WorkerStep(i, [task[i] EXCEPT !.srcOpened = "yes", !.pc = "props"])
        ELSE WorkerStep(i, SourceUnopened(task[i]))
     \/ WorkerStep(i, Raise(task[i]))

\* variant: only a negative frame rate is replaced
FixFps_Strict(f) == IF f < 0 THEN DefaultFps ELSE f

\* lines 36-38: the frame rate used for the output
FixFps(f) == IF f <= 0 THEN DefaultFps ELSE f

\* lines 33-40: the properties of the source
Props(i) ==
  /\ mainPc = "drain"
  /\ task[i].pc = "props"
  /\ UNCHANGED outDirCreated
  /\ \/ WorkerStep(i, [task[i] EXCEPT !.fps = FixFps(EntryTable[i].fps),
                                      !.pc = "open_out"])
     \/ WorkerStep(i, Raise(task[i]))

\* lines 44-45: cv2.VideoWriter(str(output_path), fourcc, fps, (width, height))
OpenOut(i) ==
  /\ mainPc = "drain"
  /\ task[i].pc = "open_out"
  /\ UNCHANGED outDirCreated
  /\ \/ WorkerStep(i, Rec([task[i] EXCEPT !.out = "open",
                                            !.encFps = task[i].fps,
                                            !.pc = "chk_out"],
                           <<"acq_out", 0>>))
     \/ WorkerStep(i, [task[i] EXCEPT !.out = "closed", !.encFps = task[i].fps,
                                      !.pc = "chk_out"])
     \/ WorkerStep(i, Raise(task[i]))

\* variant: the check of line 47 is missing
DestinationUnopened_NoCheck(r) ==
  [r EXCEPT !.dstOpened = "no", !.written = 0, !.pc = "read"]

\* lines 47-48: the encoder did not open: report, then lines 49-50
DestinationUnopened(r) == [r EXCEPT !.dstOpened = "no", !.pc = "rel49"]

\* lines 47-53: if not out.isOpened(): report, else start the loop at frame 0
ChkOut(i) ==
  /\ mainPc = "drain"
  /\ task[i].pc = "chk_out"
  /\ UNCHANGED outDirCreated
  /\ \/ IF task[i].out = "open"
        THEN WorkerStep(i, [task[i] EXCEPT !.dstOpened = "yes", !.written = 0,
                                           !.loopEntered = TRUE, !.pc = "read"])
        ELSE WorkerStep(i, DestinationUnopened(task[i]))
     \/ WorkerStep(i, Raise(task[i]))

\* variant: the return without the release of line 49
ReleaseAndReturn_NoRelease(r) == [r EXCEPT !.pc = "returned"]

\* lines 49-50: cap.release() and return
ReleaseAndReturn(r) == [CapRelease(r) EXCEPT !.pc = "returned"]

\* lines 49-50; a release that raises leaves the handle in either state
Rel49(i) ==
  /\ mainPc = "drain"
  /\ task[i].pc = "rel49"
  /\ UNCHANGED outDirCreated
  /\ \/ WorkerStep(i, ReleaseAndReturn(task[i]))
     \/ \E r \in {task[i], CapRelease(task[i])} : WorkerStep(i, Raise(r))

\* lines 55-61: ret, frame = cap.read(); break at the end of the stream
Read(i) ==
  /\ mainPc = "drain"
  /\ task[i].pc = "read"
  /\ UNCHANGED outDirCreated
  /\ \/ /\ task[i].decoded < MaxFrames
        /\ WorkerStep(i, Rec([task[i] EXCEPT !.decoded = @ + 1,
                                             !.pc = "convert"],
                             <<"read", task[i].decoded + 1>>))
     \/ WorkerStep(i, Rec([task[i] EXCEPT !.pc = "rel_cap"], <<"eos", 0>>))
     \/ WorkerStep(i, Raise(task[i]))

\* lines 64-69: cv2.cvtColor; a cv2.error skips the frame, any other
\* exception leaves the loop (convFails counts the frames whose conversion
\* raised, of either kind)
\* line 67: the frame number that the error message names
LoggedFrame(r) == r.written + 1

\* variant: the conversion failure ends the loop (break)
SkipFrame_Abort(r) ==
  Rec([r EXCEPT !.convFails = @ + 1, !.pc = "rel_cap"],
      <<"skip", LoggedFrame(r)>>)

\* lines 66-69: except cv2.error: report the frame and continue
SkipFrame(r) ==
  Rec([r EXCEPT !.convFails = @ + 1, !.pc = "read"],
      <<"skip", LoggedFrame(r)>>)

Convert(i) ==
  /\ mainPc = "drain"
  /\ task[i].pc = "convert"
  /\ UNCHANGED outDirCreated
  /\ \/ WorkerStep(i, [task[i] EXCEPT !.pc = "write"])
     \/ WorkerStep(i, SkipFrame(task[i]))
     \/ WorkerStep(i, Raise([task[i] EXCEPT !.convFails = @ + 1]))

\* variant: the frame is not handed to the encoder
WriteFrame_Dropped(r) == [r EXCEPT !.pc = "read"]

\* variant: the frame is handed to the encoder twice
WriteFrame_Twice(r) ==
  Rec(Rec([r EXCEPT !.written = @ + 1, !.pc = "read"],
          <<"write", r.decoded>>),
      <<"write", r.decoded>>)

\* lines 72-73: out.write(rgb_frame); processed_frames += 1
WriteFrame(r) ==
  Rec([r EXCEPT !.written = @ + 1, !.pc = "read"], <<"write", r.decoded>>)

\* lines 72-73, or an exception of out.write
Write(i) ==
  /\ mainPc = "drain"
  /\ task[i].pc = "write"
  /\ UNCHANGED outDirCreated
  /\ \/ WorkerStep(i, WriteFrame(task[i]))
     \/ WorkerStep(i, Raise(task[i]))

\* line 76: cap.release()
RelCap(i) ==
  /\ mainPc = "drain"
  /\ task[i].pc = "rel_cap"
  /\ UNCHANGED outDirCreated
  /\ \/ WorkerStep(i, [CapRelease(task[i]) EXCEPT !.pc = "rel_out"])
     \/ \E r \in {task[i], CapRelease(task[i])} : WorkerStep(i, Raise(r))

\* line 77: out.release(), then the function returns
RelOut(i) ==
  /\ mainPc = "drain"
  /\ task[i].pc = "rel_out"
  /\ UNCHANGED outDirCreated
  /\ \/ WorkerStep(i, [OutRelease(task[i]) EXCEPT !.pc = "returned"])
     \/ \E r \in {task[i], OutRelease(task[i])} : WorkerStep(i, Raise(r))

\* ------------------------------------------------------------ specification
Worker(i) ==
  \/ Begin(i) \/ Start(i) \/ OpenCap(i) \/ ChkCap(i) \/ Props(i)
  \/ OpenOut(i) \/ ChkOut(i) \/ Rel49(i) \/ Read(i) \/ Convert(i)
  \/ Write(i) \/ RelCap(i) \/ RelOut(i)

Main ==
  \/ DiscoverFiles \/ Setup \/ StartPool \/ Finish
  \/ \E i \in Entries : Collect(i)

Next ==
  \/ DiscoverFiles
  \/ Setup
  \/ StartPool
  \/ \E i \in Entries : Collect(i)
  \/ Finish
  \/ \E i \in Entries : Begin(i)
  \/ \E i \in Entries : Start(i)
  \/ \E i \in Entries : OpenCap(i)
  \/ \E i \in Entries : ChkCap(i)
  \/ \E i \in Entries : Props(i)
  \/ \E i \in Entries : OpenOut(i)
  \/ \E i \in Entries : ChkOut(i)
  \/ \E i \in Entries : Rel49(i)
  \/ \E i \in Entries : Read(i)
  \/ \E i \in Entries : Convert(i)
  \/ \E i \in Entries : Write(i)
  \/ \E i \in Entries : RelCap(i)
  \/ \E i \in Entries : RelOut(i)

Spec == Init /\ [][Next]_vars

\* the scheduling of the code: the orchestrator keeps running, and every
\* worker that has a task keeps executing it
FairSpec ==
  /\ Spec
  /\ WF_vars(Main)
  /\ \A i \in Entries : WF_vars(Worker(i))

\* line 55: a cap.read() that never returns; there is no timeout and no
\* cancellation, the task stays in the call (at most one task does so)
Hang(i) ==
  /\ mainPc = "drain"
  /\ task[i].pc = "read"
  /\ \A j \in Entries : task[j].pc # "hung"
  /\ WorkerStep(i, [task[i] EXCEPT !.pc = "hung"])
  /\ UNCHANGED outDirCreated

HangNext ==
  \/ Next
  \/ \E i \in Entries : Hang(i)

\* the scheduling of FairSpec; a call may hang, nothing forces it to
HangSpec ==
  /\ Init
  /\ [][HangNext]_vars
  /\ WF_vars(Main)
  /\ \A i \in Entries : WF_vars(Worker(i))

\* the run over one file, with the calls on its handles recorded
FrameInit ==
  /\ dir \in {{i} : i \in Entries}
  /\ mainPc = "discover"
  /\ video_files = {}
  /\ outDirCreated = FALSE
  /\ poolStarted = FALSE
  /\ pbar = 0
  /\ task = [i \in AllEntries |-> IdleTask]
  /\ tracing = TRUE

FrameSpec == FrameInit /\ [][Next]_vars

\* the runs over every directory of the table, up to the opening of the
\* encoder: the file names and the output paths
PathInit ==
  /\ dir \in SUBSET AllEntries
  /\ mainPc = "discover"
  /\ video_files = {}
  /\ outDirCreated = FALSE
  /\ poolStarted = FALSE
  /\ pbar = 0
  /\ task = [i \in AllEntries |-> IdleTask]
  /\ tracing = FALSE

PathNext ==
  \/ DiscoverFiles
  \/ Setup
  \/ StartPool
  \/ \E i \in AllEntries : Begin(i)
  \/ \E i \in AllEntries : Start(i)
  \/ \E i \in AllEntries : OpenCap(i)
  \/ \E i \in AllEntries : ChkCap(i)
  \/ \E i \in AllEntries : Props(i)
  \/ \E i \in AllEntries : OpenOut(i)
  \/ \E i \in AllEntries : ChkOut(i)

PathSpec == PathInit /\ [][PathNext]_vars

TypeOK ==
  /\ dir \subseteq Entries
  /\ video_files \subseteq dir
  /\ pbar \in 0..MaxEntries
  /\ \A i \in Entries : task[i].written <= task[i].decoded

\* --------------------------------------------------------------- properties
\* the directory holds no file that the discovery accepts
NoMatch == \A i \in dir : ~IsVideo(i)

C3_NoLeak ==
  \A i \in Entries :
    task[i].pc = "returned" => task[i].cap # "open" /\ task[i].out # "open"

C3_Witness ==
  \E i \in video_files :
    /\ task[i].pc = "returned"
    /\ task[i].handled
    /\ task[i].loopEntered
    /\ task[i].decoded > task[i].written + task[i].convFails
    /\ task[i].cap = "closed"
    /\ task[i].out = "closed"

\* C4 as stated: for a file whose decoder and encoder opened, at the return
\* written <= decoded, and written < decoded only after a colour-conversion
\* failure.
C4_Original ==
  \A i \in Entries :
    (task[i].pc = "returned" /\ task[i].dstOpened = "yes") =>
      /\ task[i].written <= task[i].decoded
      /\ task[i].written < task[i].decoded => task[i].convFails >= 1

\* C4 (amended): for a file whose decoder and encoder opened, at the return
\* written <= decoded, and written < decoded only after a colour-conversion
\* failure or when the invocation ended in the exception handler.
C4_WrittenAtMostDecoded ==
  \A i \in Entries :
    (task[i].pc = "returned" /\ task[i].dstOpened = "yes") =>
      /\ task[i].written <= task[i].decoded
      /\ task[i].written < task[i].decoded =>
           (task[i].convFails >= 1 \/ task[i].handled)
      /\ ~task[i].handled =>
           task[i].decoded = task[i].written + task[i].convFails

C4_Witness ==
  \E i \in video_files :
    /\ task[i].pc = "returned"
    /\ task[i].dstOpened = "yes"
    /\ ~task[i].handled
    /\ task[i].convFails = 1
    /\ task[i].written = 1
    /\ task[i].decoded = 2

\* C5: a source that does not open gets no encoder and no written frame, its
\* invocation returns, and the other files are still processed and counted.
C5_UnopenableSource ==
  /\ \A i \in Entries :
       task[i].srcOpened = "no" =>
         /\ task[i].out = "unbound"
         /\ task[i].written = 0
         /\ task[i].pc \in {"returned", "consumed"}
  /\ mainPc # "crashed"
  /\ mainPc = "done" =>
       /\ pbar = Cardinality(video_files)
       /\ \A j \in video_files : task[j].pc = "consumed"

C5_Witness ==
  /\ mainPc = "done"
  /\ \E i, j \in video_files :
       /\ task[i].srcOpened = "no"
       /\ task[j].dstOpened = "yes"

\* C6: when the encoder does not open, process_video never enters the frame
\* loop, writes no frame, does not raise, and has released the decoder when
\* it returns.
C6_UnopenableDestination ==
  \A i \in Entries :
    task[i].dstOpened = "no" =>
      /\ task[i].pc \in {"rel49", "returned", "consumed"}
      /\ task[i].written = 0
      /\ task[i].decoded = 0
      /\ ~task[i].loopEntered
      /\ task[i].pc = "returned" => task[i].cap = "closed"

C6_Witness ==
  \E i \in video_files :
    /\ task[i].pc = "returned"
    /\ task[i].dstOpened = "no"
    /\ ~task[i].handled
    /\ task[i].cap = "closed"

\* C7: the encoder is opened with 30 when the source reports a frame rate
\* <= 0 and with the reported rate otherwise, and in both cases an encoder
\* that opened is followed by the frame loop.
C7_FrameRate ==
  \A i \in Entries :
    /\ task[i].out # "unbound" =>
         task[i].encFps = IF EntryTable[i].fps <= 0 THEN 30
                          ELSE EntryTable[i].fps
    /\ (task[i].dstOpened = "yes" /\ task[i].pc # "consumed") =>
         task[i].loopEntered

C7_Witness ==
  \E i, j \in video_files :
    /\ EntryTable[i].fps <= 0
    /\ task[i].loopEntered
    /\ task[i].encFps = 30
    /\ EntryTable[j].fps > 0
    /\ task[j].loopEntered
    /\ task[j].encFps = EntryTable[j].fps

\* C8: with no matching file the program exits before the output directory
\* is created, before the pool is started and before any task exists; with a
\* matching file it never exits early, and the pool is started before the
\* results are awaited.
C8_PoolIffFiles ==
  /\ mainPc = "exited" => NoMatch
  /\ NoMatch =>
       /\ ~poolStarted
       /\ ~outDirCreated
       /\ \A i \in Entries : task[i].pc = "none"
  /\ ~NoMatch => mainPc # "exited"
  /\ mainPc \in {"drain", "done"} => poolStarted /\ ~NoMatch

C8_Witness ==
  /\ mainPc = "exited"
  /\ dir # {}
  /\ ~poolStarted
  /\ ~outDirCreated

\* C9: the final summary is emitted only when no submitted task is pending
\* or running and every result has been taken.
C9_SummaryAfterAll ==
  mainPc = "done" =>
    /\ \A i \in video_files : task[i].pc = "consumed"
    /\ \A i \in Entries : task[i].pc \notin Steps \cup {"queued", "returned"}

C9_Witness ==
  /\ mainPc = "done"
  /\ Cardinality(video_files) = 2
  /\ \A i \in video_files : task[i].dstOpened = "yes"

\* C10: under fair scheduling a batch with at least one matching file
\* eventually has every task completed and its completion reported.
C10_EventuallyDone ==
  (~NoMatch) ~>
    (/\ mainPc = "done"
     /\ pbar = Cardinality(video_files)
     /\ \A i \in video_files : task[i].pc = "consumed")

C10_Witness ==
  /\ mainPc = "done"
  /\ Cardinality(video_files) >= 1
  /\ pbar = Cardinality(video_files)
  /\ \A i \in video_files : task[i].srcOpened = "yes"

\* C11: every discovered file is submitted as one task and that task is run
\* by one invocation of process_video: none is skipped, run twice or retried,
\* and nothing else is run.
C11_ExactlyOnce ==
  /\ \A i \in Entries :
       /\ task[i].runs <= 1
       /\ task[i].pc \in Steps \cup {"returned", "raised", "consumed"} =>
            task[i].runs = 1
       /\ task[i].pc \in {"none", "queued"} => task[i].runs = 0
       /\ task[i].pc # "none" => i \in video_files
  /\ mainPc \in {"drain", "done"} =>
       \A i \in video_files : task[i].pc # "none"
  /\ mainPc = "done" => \A i \in video_files : task[i].runs = 1

C11_Witness ==
  /\ mainPc = "done"
  /\ Cardinality(video_files) = 2
  /\ \E i \in video_files : task[i].srcOpened = "unknown"
  /\ \A i \in video_files : task[i].runs = 1

\* C12 as stated: any two distinct discovered files have different output
\* paths, so no two tasks write the same output file.
C12_Original ==
  \A i, j \in video_files :
    (i # j /\ task[i].output_path # <<>> /\ task[j].output_path # <<>>) =>
      task[i].output_path # task[j].output_path

\* C12 (amended): every output path is the output directory joined with the
\* stem of the input plus .mp4, so two discovered files have different
\* output paths exactly when their stems differ.
C12_DistinctStems ==
  \A i, j \in video_files :
    (task[i].output_path # <<>> /\ task[j].output_path # <<>>) =>
      /\ task[i].output_path[1] = "processed_videos"
      /\ task[i].output_path[2] = EntryTable[i].stem
      /\ task[i].output_path[3] = ".mp4"
      /\ (task[i].output_path = task[j].output_path) <=>
           (EntryTable[i].stem = EntryTable[j].stem)

C12_Witness ==
  \E i, j \in video_files :
    /\ EntryTable[i].stem # EntryTable[j].stem
    /\ task[i].out = "open"
    /\ task[j].out = "open"
    /\ task[i].output_path # task[j].output_path

\* ------------------------------------------- properties of the recorded calls
\* the calls of the kinds K among the first p - 1 calls of the record s
Before(s, p, K) == {q \in 1..(p - 1) : s[q][1] \in K}

\* the 1-based position, in decode order, of the frame held at call p
FrameAt(s, p) == Cardinality(Before(s, p, {"read"}))

Releases == {"rel_cap", "rel_out"}

\* C13: a colour-conversion failure drops only its frame: the loop goes on
\* to the next read with both handles open, no handle is released after it
\* before the decoder reports the end of the stream (unless an unexpected
\* exception ends the invocation), and every frame that is decoded and
\* converted is written.
C13_SkipOnlyThatFrame ==
  \A i \in Entries :
    LET s == task[i].ev IN
    /\ \A p \in DOMAIN s :
         s[p][1] = "skip" =>
           /\ Before(s, p, Releases) = {}
           /\ p < Len(s) =>
                \/ s[p + 1][1] \in {"read", "eos"}
                \/ task[i].handled /\ s[p + 1][1] \in Releases
           /\ \A q \in (p + 1)..Len(s) :
                s[q][1] \in Releases =>
                  \/ \E m \in (p + 1)..(q - 1) : s[m][1] = "eos"
                  \/ task[i].handled
    /\ (s # <<>> /\ s[Len(s)][1] = "skip") =>
         /\ task[i].pc = "read"
         /\ task[i].cap = "open"
         /\ task[i].out = "open"
    /\ \A p \in DOMAIN s :
         (s[p][1] = "read" /\ p < Len(s)) =>
           \/ s[p + 1] = <<"write", s[p][2]>>
           \/ s[p + 1][1] = "skip"
           \/ task[i].handled /\ s[p + 1][1] \in Releases

C13_Witness ==
  \E i \in video_files :
    LET s == task[i].ev IN
    /\ task[i].pc = "returned"
    /\ ~task[i].handled
    /\ \E p, q \in DOMAIN s :
         /\ p < q
         /\ s[p] = <<"skip", 1>>
         /\ s[q] = <<"write", 2>>

\* C14 as stated: the number that the error of a conversion failure names
\* is the 1-based position of the failing frame in decode order.
C14_Original ==
  \A i \in Entries :
    LET s == task[i].ev IN
    \A p \in DOMAIN s : s[p][1] = "skip" => s[p][2] = FrameAt(s, p)

\* C15: the frames handed to the encoder are an order-preserving subsequence
\* of the frames decoded, each is written at most once, and a frame is
\* written before the next one is decoded.
C15_SourceOrder ==
  \A i \in Entries :
    LET s == task[i].ev IN
    /\ \A p \in DOMAIN s :
         s[p][1] = "write" =>
           /\ s[p][2] = FrameAt(s, p)
           /\ s[p][2] >= 1
    /\ \A p, q \in DOMAIN s :
         (p < q /\ s[p][1] = "write" /\ s[q][1] = "write") => s[p][2] < s[q][2]
    /\ \A p \in DOMAIN s :
         s[p][1] = "read" => s[p][2] = FrameAt(s, p) + 1

C15_Witness ==
  \E i \in video_files :
    LET s == task[i].ev IN
    /\ task[i].pc = "returned"
    /\ \E p, q \in DOMAIN s :
         /\ p < q
         /\ s[p] = <<"write", 1>>
         /\ s[q] = <<"write", 2>>

\* C16 as stated: the decoder is acquired before the encoder, and where both
\* are released the encoder is released before the decoder.
C16_Original ==
  \A i \in Entries :
    LET s == task[i].ev IN
    \A p, q \in DOMAIN s :
      /\ (s[p][1] = "acq_cap" /\ s[q][1] = "acq_out") => p < q
      /\ (s[p][1] = "rel_cap" /\ s[q][1] = "rel_out") => q < p

\* C16 (amended): the decoder is acquired before the encoder, and where both
\* are released they are released in the order of their acquisition: the
\* decoder before the encoder.
C16_AcquisitionOrder ==
  \A i \in Entries :
    LET s == task[i].ev IN
    /\ \A p, q \in DOMAIN s :
         /\ (s[p][1] = "acq_cap" /\ s[q][1] = "acq_out") => p < q
         /\ (s[p][1] = "rel_cap" /\ s[q][1] = "rel_out") => p < q
    /\ \A q \in DOMAIN s :
         s[q][1] = "acq_out" => Before(s, q, {"acq_cap"}) # {}

C16_Witness ==
  \E i \in video_files :
    LET s == task[i].ev IN
    /\ task[i].pc = "returned"
    /\ task[i].handled
    /\ \E p, q \in DOMAIN s :
         /\ p < q
         /\ s[p][1] = "rel_cap"
         /\ s[q][1] = "rel_out"

\* C19: a frame is read or written only while both handles of the
\* invocation are open: after both were acquired and before either is
\* released.
C19_UseWhileOpen ==
  \A i \in Entries :
    LET s == task[i].ev IN
    /\ \A p \in DOMAIN s :
         s[p][1] \in {"read", "eos", "write"} =>
           /\ Before(s, p, {"acq_cap"}) # {}
           /\ Before(s, p, {"acq_out"}) # {}
           /\ Before(s, p, Releases) = {}
    /\ task[i].pc \in {"read", "convert", "write"} =>
         task[i].cap = "open" /\ task[i].out = "open"

C19_Witness ==
  \E i \in video_files :
    LET s == task[i].ev IN
    /\ task[i].pc = "returned"
    /\ \E p, q \in DOMAIN s :
         /\ p < q
         /\ s[p][1] = "write"
         /\ s[q][1] = "rel_cap"
    /\ s[Len(s)][1] = "rel_out"

\* the tasks whose invocation of process_video has returned
Returned == {i \in Entries : task[i].pc \in {"returned", "consumed"}}

\* C17: the progress counter starts at zero, changes only in a step of the
\* orchestrator that takes one completion, by +1 each time, is never
\* decremented, and always 0 <= counter <= returned invocations <= total.
C17_CounterSteps ==
  /\ pbar = 0
  /\ [](/\ 0 <= pbar
        /\ pbar <= Cardinality(Returned)
        /\ Cardinality(Returned) <= Cardinality(video_files))
  /\ [][/\ pbar' >= pbar
        /\ pbar' # pbar =>
             /\ pbar' = pbar + 1
             /\ \E i \in Entries :
                  /\ task[i].pc = "returned"
                  /\ task'[i].pc = "consumed"
                  /\ \A j \in Entries \ {i} : task'[j] = task[j]
        /\ \A i \in Entries :
             (task[i].pc = "returned" /\ task'[i].pc = "consumed") =>
               pbar' = pbar + 1
        /\ (\E i \in Entries : task[i].pc \in Steps /\ task'[i] # task[i]) =>
             pbar' = pbar]_vars

C17_Witness ==
  /\ mainPc = "drain"
  /\ pbar = 1
  /\ Cardinality(Returned) = 2
  /\ \E i \in video_files : task[i].pc = "returned"

\* C18: a task that hangs for ever inside process_video does not abort the
\* batch: every other task is still run and counted (the counter reaches
\* total - 1), and the orchestrator never reports completion.
C18_HungTaskDelaysOnly ==
  /\ [](\A i \in Entries : task[i].pc = "hung" => mainPc = "drain")
  /\ \A i \in Entries :
       (task[i].pc = "hung") ~>
         [](/\ task[i].pc = "hung"
            /\ mainPc = "drain"
            /\ pbar = Cardinality(video_files) - 1
            /\ \A j \in video_files \ {i} : task[j].pc = "consumed")

C18_Witness ==
  /\ Cardinality(video_files) = 2
  /\ pbar = 1
  /\ mainPc = "drain"
  /\ \E i \in video_files : task[i].pc = "hung"

====
